---- MODULE Spec2Model ----
(***************************************************************************)
(* Model of the tcm5343.github.io repository:                              *)
(*   - src/src/Header.tsx      the Header navigation component             *)
(*   - src/unnamed/part_000    the vite build configuration (async         *)
(*                             defineConfig callback)                      *)
(*   - src/unnamed/part_001    the blog post's get_all_buckets sample      *)
(* Each part has its own next-state relation and specification; the other  *)
(* parts' variables stay at their initial values.                          *)
(***************************************************************************)
EXTENDS Naturals, Sequences, FiniteSets

VARIABLES
    \* ---- Header.tsx, as driven by the UI framework ----
    mounted,      \* is a Header instance mounted
    arrays,       \* every array the `buttons` literal has allocated, in order
    renders,      \* every call of Header: props, the array it used, its output
    rendered,     \* <<tree>> currently on screen, <<>> when unmounted
    events,       \* events emitted by click handlers
    dispatched,   \* click events the browser has dispatched on the buttons
    \* ---- vite config, as driven by the bundler ----
    cfgPc,        \* position of the current load of the config module
    cfgLog,       \* events of the current load, in order
    cfgSuspensions, \* times the callback has yielded control in this load
    promise,      \* state of the promise the async callback returned
    promiseValue, \* <<config>> once fulfilled, <<>> otherwise
    mdx,          \* <<namespace>>: the local `mdx` once the import resolved
    reactThrows,  \* does the react factory bound by the static import throw
    history,      \* what the bundler received, one entry per finished load
    \* ---- get_all_buckets, against a scripted list_buckets ----
    pages,        \* the responses list_buckets gives, call by call
    bpc,          \* position in get_all_buckets
    calls,        \* the arguments of each list_buckets call, in order
    response,     \* <<response>>: the local `response`
    result,       \* the local `result`
    returned      \* <<value>> once get_all_buckets has returned

headerVars == <<mounted, arrays, renders, rendered, events, dispatched>>
configVars == <<cfgPc, cfgLog, cfgSuspensions, promise, promiseValue, mdx,
               reactThrows, history>>
bucketVars == <<pages, bpc, calls, response, result, returned>>
vars == <<headerVars, configVars, bucketVars>>

\* ------------------------------------------------------------------ bounds
MaxRenders == 3
MaxClicks == 2
MaxLoads == 3
MaxPages == 3

\* ======================================================= Header.tsx ====

buttons_Swapped == <<"Home", "Services", "About", "Contact">>

\* Header.tsx:4  the array literal
buttons == <<"Home", "About", "Services", "Contact">>

\* Header.module.css class names, by key (Header.tsx:1)
styles == [header |-> "header", buttonContainer |-> "buttonContainer",
           button |-> "button"]

\* The props a parent may pass; Header declares no parameter.
PropsSet == [title : {"none", "Blog"}, extra : {"none", "Login"}]

ButtonElement_IndexlessKey(label) ==
    [type |-> "button", key |-> "button", className |-> styles.button,
     children |-> label]

ButtonElement_WithOnClick(label) ==
    [type |-> "button", key |-> label, className |-> styles.button,
     children |-> label, onClick |-> "navigate"]

\* Header.tsx:10-12  <button key={label} className={styles.button}>{label}</button>
ButtonElement(label) ==
    [type |-> "button", key |-> label, className |-> styles.button,
     children |-> label]

\* Header.tsx:9  Array.prototype.map with the button callback
MapButtons(labels) == [i \in 1..Len(labels) |-> ButtonElement(labels[i])]

Header_UsesProps(props) ==
    LET labels == IF props.extra = "none" THEN buttons
                  ELSE Append(buttons, props.extra)
    IN [type |-> "header", className |-> styles.header,
        children |-> <<[type |-> "div", className |-> styles.buttonContainer,
                        children |-> MapButtons(labels)]>>]

\* Header.tsx:3-17  the component function; its argument is not read
Header(props) ==
    [type |-> "header", className |-> styles.header,
     children |-> <<[type |-> "div", className |-> styles.buttonContainer,
                     children |-> MapButtons(buttons)]>>]

\* The button elements of a rendered tree, in document order.
ButtonsOf(tree) == tree.children[1].children

DoRender_Hoisted(props) ==
    /\ arrays' = IF arrays = <<>> THEN <<buttons>> ELSE arrays
    /\ renders' = Append(renders, [props |-> props, buttonsRef |-> 1,
                                   out |-> Header(props)])
    /\ rendered' = <<Header(props)>>

\* One call of Header by the framework: line 4 allocates the array, the
\* return value becomes the tree on screen.
DoRender(props) ==
    /\ arrays' = Append(arrays, buttons)
    /\ renders' = Append(renders, [props |-> props,
                                   buttonsRef |-> Len(arrays) + 1,
                                   out |-> Header(props)])
    /\ rendered' = <<Header(props)>>

Mount ==
    /\ ~mounted
    /\ Len(renders) < MaxRenders
    /\ \E props \in PropsSet : DoRender(props)
    /\ mounted' = TRUE
    /\ UNCHANGED <<events, dispatched, configVars, bucketVars>>

Rerender ==
    /\ mounted
    /\ Len(renders) < MaxRenders
    /\ \E props \in PropsSet : DoRender(props)
    /\ UNCHANGED <<mounted, events, dispatched, configVars, bucketVars>>

Unmount ==
    /\ mounted
    /\ mounted' = FALSE
    /\ rendered' = <<>>
    /\ UNCHANGED <<arrays, renders, events, dispatched, configVars, bucketVars>>

\* The browser dispatches a click on the i-th button; the framework calls the
\* element's onClick prop when it has one.
Click ==
    /\ mounted
    /\ dispatched < MaxClicks
    /\ \E i \in 1..Len(ButtonsOf(rendered[1])) :
         LET el == ButtonsOf(rendered[1])[i]
         IN events' = IF "onClick" \in DOMAIN el
                      THEN Append(events, [handler |-> el.onClick,
                                           target |-> el.key])
                      ELSE events
    /\ dispatched' = dispatched + 1
    /\ UNCHANGED <<mounted, arrays, renders, rendered, configVars, bucketVars>>

NextHeader == Mount \/ Rerender \/ Unmount \/ Click

InitHeader ==
    /\ mounted = FALSE
    /\ arrays = <<>>
    /\ renders = <<>>
    /\ rendered = <<>>
    /\ events = <<>>
    /\ dispatched = 0

InitConfig ==
    /\ cfgPc = "idle"
    /\ cfgLog = <<>>
    /\ cfgSuspensions = 0
    /\ promise = "none"
    /\ promiseValue = <<>>
    /\ mdx = <<>>
    /\ reactThrows = FALSE
    /\ history = <<>>

InitBuckets ==
    /\ pages = <<>>
    /\ bpc = "idle"
    /\ calls = <<>>
    /\ response = <<>>
    /\ result = <<>>
    /\ returned = <<>>

Init == InitHeader /\ InitConfig /\ InitBuckets


\* ================================================ vite config (part_000) ====

\* part_000:2,10  what react() returns when the factory does not throw
react == [plugin |-> "@vitejs/plugin-react", options |-> "none"]

\* part_000:6,10  the namespace object import('@mdx-js/rollup') resolves to when
\* the package is sound: a default export that, called with no options, makes
\* the mdx plugin
MdxModule ==
    [default |-> [throws |-> FALSE,
                  makes |-> [plugin |-> "@mdx-js/rollup", options |-> "none"]]]

\* part_000:6  the namespaces the dynamic import may resolve to: the sound one,
\* one whose default export throws when called, one with no default export
MdxNamespaces ==
    {MdxModule,
     [default |-> [throws |-> TRUE,
                   makes |-> [plugin |-> "@mdx-js/rollup", options |-> "none"]]],
     [rollup |-> [throws |-> FALSE,
                  makes |-> [plugin |-> "@mdx-js/rollup", options |-> "none"]]]}

\* part_000:10  mdx.default() completes: the export exists and does not throw
MdxFactoryWorks(ns) == "default" \in DOMAIN ns /\ ~ns.default.throws

UserConfig_Swapped(ns) ==
    [base |-> "https://tcm5343.github.io/",
     plugins |-> <<ns.default.makes, react>>]

\* part_000:8-11  the object the callback returns
UserConfig(ns) ==
    [base |-> "https://tcm5343.github.io/",
     plugins |-> <<react, ns.default.makes>>]

\* part_000:1-2  the bundler evaluates the config module: the static imports
\* resolve (binding react to a factory that works or one that throws) and
\* defineConfig hands the callback back as the default export.
EvaluateModule ==
    /\ cfgPc = "idle"
    /\ Len(history) < MaxLoads
    /\ cfgPc' = "exported"
    /\ cfgLog' = <<"module_evaluated">>
    /\ cfgSuspensions' = 0
    /\ promise' = "none"
    /\ promiseValue' = <<>>
    /\ mdx' = <<>>
    /\ \E rt \in BOOLEAN : reactThrows' = rt
    /\ UNCHANGED <<history, headerVars, bucketVars>>

\* part_000:1-2  a static import ('vite' or '@vitejs/plugin-react') cannot be
\* loaded: the module never evaluates and exports nothing.
StaticImportFails ==
    /\ cfgPc = "idle"
    /\ Len(history) < MaxLoads
    /\ cfgPc' = "load_failed"
    /\ cfgLog' = <<"static_import_failed">>
    /\ cfgSuspensions' = 0
    /\ promise' = "none"
    /\ promiseValue' = <<>>
    /\ mdx' = <<>>
    /\ reactThrows' = FALSE
    /\ UNCHANGED <<history, headerVars, bucketVars>>

InvokeCallback_NoAwait ==
    /\ cfgPc = "exported"
    /\ ~reactThrows
    /\ cfgPc' = "fulfilled"
    /\ cfgLog' = cfgLog \o <<"callback_started", "import_started",
                             "react_called", "mdx_called", "config_returned">>
    /\ promise' = "fulfilled"
    /\ promiseValue' = <<UserConfig(MdxModule)>>
    /\ UNCHANGED <<cfgSuspensions, mdx, reactThrows, history,
                   headerVars, bucketVars>>

\* part_000:5-6  the bundler calls the async callback: it runs to the await,
\* starts the dynamic import, and yields with its promise pending.
InvokeCallback ==
    /\ cfgPc = "exported"
    /\ cfgPc' = "awaiting"
    /\ cfgLog' = cfgLog \o <<"callback_started", "import_started">>
    /\ cfgSuspensions' = cfgSuspensions + 1
    /\ promise' = "pending"
    /\ UNCHANGED <<promiseValue, mdx, reactThrows, history,
                   headerVars, bucketVars>>

\* part_000:6  the module loader settles the dynamic import with a namespace
ImportResolves ==
    /\ cfgPc = "awaiting"
    /\ cfgPc' = "import_done"
    /\ cfgLog' = Append(cfgLog, "import_completed")
    /\ \E ns \in MdxNamespaces : mdx' = <<ns>>
    /\ UNCHANGED <<cfgSuspensions, promise, promiseValue, reactThrows, history,
                   headerVars, bucketVars>>

ImportRejects ==
    /\ cfgPc = "awaiting"
    /\ cfgPc' = "import_failed"
    /\ cfgLog' = Append(cfgLog, "import_failed")
    /\ UNCHANGED <<cfgSuspensions, promise, promiseValue, mdx, reactThrows,
                   history, headerVars, bucketVars>>

ResumeCallback_SecondAwait ==
    /\ cfgPc = "import_done"
    /\ ~reactThrows
    /\ MdxFactoryWorks(mdx[1])
    /\ cfgPc' = "fulfilled"
    /\ cfgLog' = cfgLog \o <<"react_called", "mdx_called", "config_returned">>
    /\ cfgSuspensions' = cfgSuspensions + 1
    /\ promise' = "fulfilled"
    /\ promiseValue' = <<UserConfig(mdx[1])>>
    /\ UNCHANGED <<mdx, reactThrows, history, headerVars, bucketVars>>

\* part_000:6-11  the continuation after the await when both factories work:
\* mdx is bound, react() and mdx.default() are called in that order, the
\* object is returned and the promise is fulfilled with it.
ResumeCallback ==
    /\ cfgPc = "import_done"
    /\ ~reactThrows
    /\ MdxFactoryWorks(mdx[1])
    /\ cfgPc' = "fulfilled"
    /\ cfgLog' = cfgLog \o <<"react_called", "mdx_called", "config_returned">>
    /\ promise' = "fulfilled"
    /\ promiseValue' = <<UserConfig(mdx[1])>>
    /\ UNCHANGED <<cfgSuspensions, mdx, reactThrows, history,
                   headerVars, bucketVars>>

\* part_000:10  the continuation after the await when a factory fails while
\* the plugins array is built: react() throws, or react() returns and
\* mdx.default() throws (the export throws, or is missing and the call is a
\* TypeError). Nothing catches it: line 8's object is never made and the
\* promise is rejected.
ResumeFactoryThrows ==
    /\ cfgPc = "import_done"
    /\ reactThrows \/ ~MdxFactoryWorks(mdx[1])
    /\ cfgPc' = "rejected"
    /\ cfgLog' = cfgLog \o (IF reactThrows
                            THEN <<"react_threw", "callback_threw">>
                            ELSE <<"react_called", "mdx_threw", "callback_threw">>)
    /\ promise' = "rejected"
    /\ UNCHANGED <<cfgSuspensions, promiseValue, mdx, reactThrows, history,
                   headerVars, bucketVars>>

ResumeThrows_Fallback ==
    /\ cfgPc = "import_failed"
    /\ cfgPc' = "fulfilled"
    /\ cfgLog' = cfgLog \o <<"react_called", "config_returned">>
    /\ promise' = "fulfilled"
    /\ promiseValue' = <<[base |-> "https://tcm5343.github.io/",
                          plugins |-> <<react>>]>>
    /\ UNCHANGED <<cfgSuspensions, mdx, reactThrows, history,
                   headerVars, bucketVars>>

\* part_000:6  the await rethrows the import's failure; nothing catches it, so
\* the callback's promise is rejected before line 8 is reached.
ResumeThrows ==
    /\ cfgPc = "import_failed"
    /\ cfgPc' = "rejected"
    /\ cfgLog' = Append(cfgLog, "callback_threw")
    /\ promise' = "rejected"
    /\ UNCHANGED <<cfgSuspensions, promiseValue, mdx, reactThrows, history,
                   headerVars, bucketVars>>

\* The bundler takes the outcome of the load: the resolved config, or the error.
BundlerReceives ==
    /\ cfgPc \in {"fulfilled", "rejected", "load_failed"}
    /\ history' = Append(history,
                         [outcome |-> IF cfgPc = "fulfilled" THEN "config"
                                      ELSE "error",
                          config |-> promiseValue,
                          log |-> cfgLog,
                          suspensions |-> cfgSuspensions])
    /\ cfgPc' = "idle"
    /\ UNCHANGED <<cfgLog, cfgSuspensions, promise, promiseValue, mdx,
                   reactThrows, headerVars, bucketVars>>

NextConfig ==
    \/ EvaluateModule
    \/ StaticImportFails
    \/ InvokeCallback
    \/ ImportResolves
    \/ ImportRejects
    \/ ResumeCallback
    \/ ResumeFactoryThrows
    \/ ResumeThrows
    \/ BundlerReceives

\* ================================== get_all_buckets (part_001) ====

\* Bucket lists a page may carry
BucketLists == {<<>>, <<"b1">>, <<"b2", "b3">>}

\* Token values a response may carry under 'ContinuationToken'
Tokens == {"", "t1", "t2"}

\* A list_buckets response: a dict with 'Buckets' and, optionally,
\* 'ContinuationToken'
Responses ==
    [Buckets : BucketLists]
        \cup [Buckets : BucketLists, ContinuationToken : Tokens]

\* dict.get(key): <<value>>, or <<>> for None when the key is absent
Get(dict, key) == IF key \in DOMAIN dict THEN <<dict[key]>> ELSE <<>>

\* Python truth value of an Optional[str]: None and '' are false
Truthy(opt) == opt # <<>> /\ opt[1] # ""

\* The scripted listings: the service's last page carries no usable token.
PageSeqs ==
    UNION { { ps \in [1..n -> Responses] :
                ~Truthy(Get(ps[n], "ContinuationToken")) } : n \in 1..MaxPages }

\* The n-th list_buckets call answers with the n-th page.
ListBuckets(n) == pages[n]

\* part_001:31-34 (79-83 with the module-level client): the first call, made
\* without arguments, and the first extend
Start ==
    /\ bpc = "idle"
    /\ \E ps \in PageSeqs :
         /\ pages' = ps
         /\ response' = <<ps[1]>>
         /\ result' = ps[1].Buckets
    /\ calls' = <<[args |-> <<>>]>>
    /\ bpc' = "loop"
    /\ UNCHANGED <<returned, headerVars, configVars>>

LoopIteration_NoExtend ==
    /\ bpc = "loop"
    /\ Truthy(Get(response[1], "ContinuationToken"))
    /\ calls' = Append(calls, [args |-> Get(response[1], "ContinuationToken")])
    /\ response' = <<ListBuckets(Len(calls) + 1)>>
    /\ UNCHANGED <<result, pages, bpc, returned, headerVars, configVars>>

\* part_001:35-37 (84-86): the walrus test is true; call again with the token
\* and extend the result
LoopIteration ==
    /\ bpc = "loop"
    /\ Truthy(Get(response[1], "ContinuationToken"))
    /\ calls' = Append(calls, [args |-> Get(response[1], "ContinuationToken")])
    /\ response' = <<ListBuckets(Len(calls) + 1)>>
    /\ result' = result \o ListBuckets(Len(calls) + 1).Buckets
    /\ UNCHANGED <<pages, bpc, returned, headerVars, configVars>>

\* part_001:35,38 (84,87): the walrus test is false; return result
Return ==
    /\ bpc = "loop"
    /\ ~Truthy(Get(response[1], "ContinuationToken"))
    /\ returned' = <<result>>
    /\ bpc' = "done"
    /\ UNCHANGED <<pages, calls, response, result, headerVars, configVars>>

NextBuckets == Start \/ LoopIteration \/ Return

SpecHeader == Init /\ [][NextHeader]_vars

SpecConfig == Init /\ [][NextConfig]_vars

\* The event loop runs every queued continuation and the bundler awaits the
\* promise it was given, so a resumable callback does resume (to whichever
\* outcome the loaded factories give).
FairSpecConfig ==
    SpecConfig /\ WF_vars(ResumeCallback \/ ResumeFactoryThrows)
               /\ WF_vars(ResumeThrows)
               /\ WF_vars(BundlerReceives)

SpecBuckets == Init /\ [][NextBuckets]_vars

\* ================================================================ claims ====

\* The four labels, as the specification lists them.
ExpectedLabels == <<"Home", "About", "Services", "Contact">>

\* A tree is one container holding exactly the four expected buttons.
IsFourButtons(tree) ==
    /\ Len(tree.children) = 1
    /\ tree.children[1].type = "div"
    /\ Len(ButtonsOf(tree)) = 4
    /\ \A i \in 1..Len(ButtonsOf(tree)) :
         /\ ButtonsOf(tree)[i].type = "button"
         /\ ButtonsOf(tree)[i].children = ExpectedLabels[i]

\* C1: every render of Header, and the tree on screen, holds exactly four
\* button elements, in the order Home, About, Services, Contact, the i-th
\* showing the i-th label, and nothing else.
C1_FourButtonsInOrder ==
    /\ \A k \in DOMAIN renders : IsFourButtons(renders[k].out)
    /\ mounted => IsFourButtons(rendered[1])

C1_Witness == mounted /\ Len(renders) >= 2 /\ Len(ButtonsOf(rendered[1])) = 4

\* C2: no rendered button has a click handler; no event is ever emitted; and a
\* dispatched click leaves the rendered output, the label arrays and the
\* render history as they were.
C2_NoClickBehaviour ==
    /\ [](/\ events = <<>>
          /\ \A t \in DOMAIN rendered : \A i \in DOMAIN ButtonsOf(rendered[t]) :
               "onClick" \notin DOMAIN ButtonsOf(rendered[t])[i])
    /\ [][dispatched' # dispatched =>
            /\ rendered' = rendered
            /\ arrays' = arrays
            /\ renders' = renders
            /\ events' = events]_vars

C2_Witness == mounted /\ dispatched >= 2 /\ events = <<>>

\* C3 as stated: one single label sequence serves every render; it is never
\* re-created.
C3_Original ==
    /\ Len(arrays) <= 1
    /\ \A i, j \in DOMAIN renders : renders[i].buttonsRef = renders[j].buttonsRef

\* C3 as amended: the label sequence is created by each call of Header (none
\* exists before the first render, one more after every render, each render
\* using the one it created), every one holds the same four labels in the same
\* order, and none is changed after its creation.
C3_Amended ==
    /\ Len(arrays) = Len(renders)
    /\ \A k \in DOMAIN renders : renders[k].buttonsRef = k
    /\ \A a \in DOMAIN arrays : arrays[a] = ExpectedLabels

C3_Witness == ~mounted /\ Len(renders) >= 2 /\ Len(arrays) >= 2

\* C7: any two renders of Header, whatever their props and whatever came
\* before, give the same button sequence.
C7_OutputIndependentOfProps ==
    \A i, j \in DOMAIN renders :
        ButtonsOf(renders[i].out) = ButtonsOf(renders[j].out)

C7_Witness ==
    \E i, j \in DOMAIN renders :
        /\ i < j
        /\ renders[i].props.extra # renders[j].props.extra
        /\ renders[i].props.title # renders[j].props.title
        /\ dispatched > 0

\* C9: every rendered button's key is its label, and the keys of one render
\* are pairwise distinct: as many distinct keys as buttons.
C9_KeysAreDistinctLabels ==
    \A k \in DOMAIN renders :
        LET bs == ButtonsOf(renders[k].out)
        IN /\ \A i \in DOMAIN bs : bs[i].key = bs[i].children
           /\ Cardinality({bs[i].key : i \in DOMAIN bs}) = Len(bs)

C9_Witness ==
    /\ Len(renders) >= 1
    /\ Cardinality({ButtonsOf(renders[1].out)[i].key :
                      i \in DOMAIN ButtonsOf(renders[1].out)}) = 4

InLog(log, e) == \E i \in DOMAIN log : log[i] = e

\* A config object with a base path, exactly the react and mdx plugins in that
\* order, and no other option.
IsTwoPluginConfig(c) ==
    /\ DOMAIN c = {"base", "plugins"}
    /\ c.base = "https://tcm5343.github.io/"
    /\ Len(c.plugins) = 2
    /\ c.plugins[1].plugin = "@vitejs/plugin-react"
    /\ c.plugins[2].plugin = "@mdx-js/rollup"

\* C4: every configuration the callback produces and the bundler receives
\* registers exactly two plugins, react first and mdx second, with the one
\* base path, and sets no other option.
C4_TwoPluginsAndBase ==
    /\ promise = "fulfilled" =>
         Len(promiseValue) = 1 /\ IsTwoPluginConfig(promiseValue[1])
    /\ \A k \in DOMAIN history :
         history[k].outcome = "config" =>
           Len(history[k].config) = 1 /\ IsTwoPluginConfig(history[k].config[1])

C4_Witness ==
    \E k \in DOMAIN history :
        history[k].outcome = "config" /\ Len(history[k].config[1].plugins) = 2

\* C5 as stated: producing the build configuration never yields control
\* between its start and its result.
C5_Original == cfgSuspensions = 0 /\ promise # "pending"

\* C5 as amended: producing the build configuration yields control exactly
\* once, at the await of the dynamic import, before any plugin factory is
\* called; from its resumption to its result it does not yield again.
C5_Amended ==
    /\ cfgSuspensions <= 1
    /\ promise = "pending" =>
         /\ cfgSuspensions = 1
         /\ InLog(cfgLog, "import_started")
         /\ ~InLog(cfgLog, "react_called")
         /\ ~InLog(cfgLog, "mdx_called")
    /\ promise \in {"fulfilled", "rejected"} => cfgSuspensions = 1
    /\ \A k \in DOMAIN history :
         history[k].outcome = "config" => history[k].suspensions = 1

C5_Witness ==
    /\ cfgPc = "fulfilled"
    /\ cfgSuspensions = 1
    /\ \E k \in DOMAIN history : history[k].outcome = "config"

ImportFailureIn(log) ==
    InLog(log, "static_import_failed") \/ InLog(log, "import_failed")

FactoryFailureIn(log) == InLog(log, "react_threw") \/ InLog(log, "mdx_threw")

\* C6 as stated: a load of the configuration fails exactly when a plugin
\* dependency could not be loaded, and then the bundler is handed no
\* configuration at all: no base path and no partial plugin list.
C6_Original ==
    /\ ImportFailureIn(cfgLog) => promise # "fulfilled" /\ promiseValue = <<>>
    /\ promise = "rejected" => ImportFailureIn(cfgLog)
    /\ \A k \in DOMAIN history :
         /\ history[k].outcome = "error" <=> ImportFailureIn(history[k].log)
         /\ history[k].outcome = "error" => history[k].config = <<>>

\* C6 as amended: a load of the configuration fails exactly when a plugin
\* dependency could not be loaded or, the import having completed, a plugin
\* factory failed when called (react() or mdx.default() threw, or the mdx
\* module had no default export); in every failure the bundler is handed no
\* configuration at all: no base path and no partial plugin list.
C6_Amended ==
    /\ (ImportFailureIn(cfgLog) \/ FactoryFailureIn(cfgLog)) =>
         promise # "fulfilled" /\ promiseValue = <<>>
    /\ promise = "rejected" =>
         /\ ImportFailureIn(cfgLog) \/ FactoryFailureIn(cfgLog)
         /\ promiseValue = <<>>
    /\ \A k \in DOMAIN history :
         /\ history[k].outcome = "error" <=>
              (ImportFailureIn(history[k].log) \/ FactoryFailureIn(history[k].log))
         /\ history[k].outcome = "error" => history[k].config = <<>>
         /\ FactoryFailureIn(history[k].log) =>
              InLog(history[k].log, "import_completed")

C6_Witness ==
    \E i, j, k \in DOMAIN history :
        /\ history[i].outcome = "error"
        /\ InLog(history[i].log, "import_failed")
        /\ history[j].outcome = "error"
        /\ InLog(history[j].log, "static_import_failed")
        /\ history[k].outcome = "error"
        /\ InLog(history[k].log, "mdx_threw")
        /\ history[k].config = <<>>

\* In every load the import-completed event comes before the config-returned
\* event.
ImportPrecedesReturn ==
    \A i \in DOMAIN cfgLog :
        cfgLog[i] = "config_returned" =>
          \E j \in 1..(i - 1) : cfgLog[j] = "import_completed"

\* C8 as stated: in every load the import-completed event comes before the
\* config-returned event, and once the import has completed the configuration
\* is eventually returned by that load.
C8_Original ==
    /\ []ImportPrecedesReturn
    /\ \A n \in 0..MaxLoads :
         (Len(history) = n /\ cfgPc = "import_done")
           ~> (Len(history) = n /\ InLog(cfgLog, "config_returned"))

\* C8 as amended: in every load the import-completed event comes before the
\* config-returned event, and once the import has completed that load
\* eventually either returns the configuration or throws because a plugin
\* factory failed when called.
C8_Amended ==
    /\ []ImportPrecedesReturn
    /\ \A n \in 0..MaxLoads :
         (Len(history) = n /\ cfgPc = "import_done")
           ~> (/\ Len(history) = n
               /\ \/ InLog(cfgLog, "config_returned")
                  \/ FactoryFailureIn(cfgLog) /\ InLog(cfgLog, "callback_threw"))

C8_Witness ==
    /\ InLog(cfgLog, "import_completed")
    /\ InLog(cfgLog, "config_returned")
    /\ promise = "fulfilled"
    /\ \E k \in DOMAIN history :
         InLog(history[k].log, "import_completed") /\ history[k].outcome = "error"

RECURSIVE ConcatBuckets(_, _)
\* The Buckets of the first n pages, concatenated in page order.
ConcatBuckets(ps, n) ==
    IF n = 0 THEN <<>> ELSE ConcatBuckets(ps, n - 1) \o ps[n].Buckets

\* One call per page, the first without arguments, each later one with the
\* token of the response before it, and the concatenation returned.
OneCallPerPage ==
    /\ Len(calls) = Len(pages)
    /\ calls[1].args = <<>>
    /\ \A k \in 2..Len(calls) :
         /\ "ContinuationToken" \in DOMAIN pages[k - 1]
         /\ calls[k].args = <<pages[k - 1].ContinuationToken>>
    /\ returned = <<ConcatBuckets(pages, Len(pages))>>

\* Only the last response has no 'ContinuationToken' key.
OnlyLastLacksToken(ps) ==
    \A k \in DOMAIN ps : ("ContinuationToken" \notin DOMAIN ps[k]) <=> k = Len(ps)

\* Every response but the last has a non-empty token; the last has no
\* 'ContinuationToken' key.
OnlyLastLacksNonEmptyToken(ps) ==
    /\ "ContinuationToken" \notin DOMAIN ps[Len(ps)]
    /\ \A k \in 1..(Len(ps) - 1) : Truthy(Get(ps[k], "ContinuationToken"))

\* C10 as stated: when only the last response lacks a ContinuationToken,
\* list_buckets is called once per page and the result is the concatenation
\* of all pages.
C10_Original ==
    (bpc = "done" /\ OnlyLastLacksToken(pages)) => OneCallPerPage

\* C10 as amended: when every response but the last carries a non-empty
\* ContinuationToken and the last carries none, list_buckets is called once
\* per page, each later call passing the preceding token, and the result is
\* the concatenation of all pages in order; in every case the loop stops at
\* the first response whose token is missing or empty, having concatenated
\* the pages up to it.
C10_Amended ==
    /\ (bpc = "done" /\ OnlyLastLacksNonEmptyToken(pages)) => OneCallPerPage
    /\ bpc = "done" =>
         /\ ~Truthy(Get(pages[Len(calls)], "ContinuationToken"))
         /\ \A k \in 1..(Len(calls) - 1) :
              Truthy(Get(pages[k], "ContinuationToken"))
         /\ returned = <<ConcatBuckets(pages, Len(calls))>>

C10_Witness ==
    /\ bpc = "done"
    /\ Len(pages) = 3
    /\ OnlyLastLacksNonEmptyToken(pages)
    /\ Len(calls) = 3
    /\ returned = <<<<"b2", "b3", "b1">>>>
====
